---- MODULE Spec2Model ----
(***************************************************************************)
(* A model of renamer (src/src/main.rs, file.rs, action.rs): the listing   *)
(* of a directory is written to a temporary file, the user edits it in an  *)
(* external editor, the edited text is reconciled positionally with the    *)
(* listing into Delete / Rename actions, and on acceptance the actions are *)
(* applied to the filesystem one after the other.                          *)
(*                                                                         *)
(* A string is a sequence of characters; a character is a one-character    *)
(* string.  The filesystem is one flat, case-sensitive directory: a map    *)
(* from path to "none" (nothing there), "file", "dir" (a directory, with   *)
(* no modelled children) or "link" (a symbolic link whose destination does *)
(* not exist: std::fs::metadata follows links and fails on it, while       *)
(* remove_file and rename act on the link itself).                         *)
(***************************************************************************)
EXTENDS Integers, Sequences, FiniteSets, TLC

\* ------------------------------------------------------------------ bounds

\* At most this many directory entries exist when the program starts.
MaxFiles == 2
\* The editor never holds more than this many raw lines in the buffer.
MaxLines == 3

\* ------------------------------------------------------------- strings

a_ == <<"a">>
A_ == <<"A">>
b_ == <<"b">>
hash_a == <<"#", "a">>

\* The paths the model's directory can hold when the program starts.
Paths == {a_, A_, hash_a}

\* Every path of the model: those, and the rename target "b".
AllPaths == Paths \cup {b_}

\* The names the pattern matches: the default pattern ".*" matches them all.
Patterns == {Paths}

\* The raw lines the user types in the editor.
EditorLines ==
    { a_, <<" ", "b">>, hash_a, <<>>, <<" ">> }

\* What the user types at a prompt, as read_line returns it (newline included).
Answers ==
    { <<"y", "\n">>, <<"n", "\n">>, <<"e", "\n">>,
      <<" ", "Y", "\n">>, <<"b", "\n">>, <<"\n">> }

\* char::is_whitespace, on the model's characters.
is_whitespace(c) == c \in {" ", "\n"}

\* char::to_ascii_lowercase / char::to_lowercase, on the model's characters.
to_lowercase_char(c) ==
    CASE c = "A" -> "a"
      [] c = "Y" -> "y"
      [] OTHER -> c

to_lowercase(s) == [i \in 1..Len(s) |-> to_lowercase_char(s[i])]

SetMin(S) == CHOOSE x \in S : \A y \in S : x <= y
SetMax(S) == CHOOSE x \in S : \A y \in S : x >= y

\* str::trim: the string without its leading and trailing whitespace.
trim(s) ==
    LET keep == {i \in 1..Len(s) : ~is_whitespace(s[i])}
    IN  IF keep = {} THEN <<>> ELSE SubSeq(s, SetMin(keep), SetMax(keep))

\* str::starts_with("#")
starts_with_marker(s) == Len(s) >= 1 /\ s[1] = "#"

\* str::eq_ignore_ascii_case
eq_ignore_ascii_case(x, y) ==
    /\ Len(x) = Len(y)
    /\ \A i \in 1..Len(x) : to_lowercase_char(x[i]) = to_lowercase_char(y[i])

\* BufRead::lines: the text cut at each "\n", terminators dropped; a text that
\* ends with "\n" has no empty last line, and the empty text has no line.
RECURSIVE lines_from(_, _)
lines_from(text, cur) ==
    IF text = <<>>
    THEN IF cur = <<>> THEN <<>> ELSE <<cur>>
    ELSE IF Head(text) = "\n"
         THEN <<cur>> \o lines_from(Tail(text), <<>>)
         ELSE lines_from(Tail(text), Append(cur, Head(text)))

lines(text) == lines_from(text, <<>>)

\* ------------------------------------------------------------ file.rs

\* FsItemType and FsItem.
FsItemType == {"File", "Directory"}
FsItem(item_type, name) == [item_type |-> item_type, name |-> name]

\* write_file_names: the names, "\n" between them, nothing after the last.
RECURSIVE write_names_from(_, _)
write_names_from(files, first) ==
    IF files = <<>>
    THEN <<>>
    ELSE (IF first THEN <<>> ELSE <<"\n">>)
         \o Head(files).name
         \o write_names_from(Tail(files), FALSE)

write_file_names(files) == write_names_from(files, TRUE)

\* ActionType and Action::new.
Delete == [tag |-> "Delete", path |-> <<>>]
Rename(path) == [tag |-> "Rename", path |-> path]
Action(act, item) == [act |-> act, item |-> item]

\* create_action with the comparison made before the marker test: the variant
\* that C4 tells from the code.
create_action_delete_last(f, item) ==
    LET line == trim(f)
    IN  IF line /= item.name
        THEN <<Action(Rename(line), item)>>
        ELSE IF starts_with_marker(line)
             THEN <<Action(Delete, item)>>
             ELSE <<>>

\* create_action without the trim: the variant that C5 tells from the code.
create_action_untrimmed(f, item) ==
    LET line == f
    IN  IF starts_with_marker(line)
        THEN <<Action(Delete, item)>>
        ELSE IF line /= item.name
             THEN <<Action(Rename(line), item)>>
             ELSE <<>>

\* create_action: None is <<>>, Some(x) is <<x>>.
create_action(f, item) ==
    LET line == trim(f)
    IN  IF starts_with_marker(line)
        THEN <<Action(Delete, item)>>
        ELSE IF line /= item.name
             THEN <<Action(Rename(line), item)>>
             ELSE <<>>

\* ReadFileError::Parse and the Ok value of read_file_names.
TooMany == "file contained too many file names"
TooFew == "file did not contain enough file names"
ParseError(msg) == [ok |-> FALSE, actions |-> <<>>, err |-> msg]
Ok(actions) == [ok |-> TRUE, actions |-> actions, err |-> ""]

\* The filter without the trim, dropping only the empty lines: the variant
\* that C12 tells from the code.
non_blank_empty_only(ls) == SelectSeq(ls, LAMBDA str : str /= <<>>)

\* The filter of read_file_names: the lines that are not blank after trim.
non_blank(ls) == SelectSeq(ls, LAMBDA str : trim(str) /= <<>>)

\* The loop of read_file_names over the remaining lines and files.
RECURSIVE read_loop(_, _, _)
read_loop(lines_it, files_it, actions) ==
    IF lines_it /= <<>>
    THEN IF files_it /= <<>>
         THEN read_loop(Tail(lines_it), Tail(files_it),
                        actions \o create_action(Head(lines_it), Head(files_it)))
         ELSE ParseError(TooMany)
    ELSE IF files_it /= <<>>
         THEN ParseError(TooFew)
         ELSE Ok(actions)

\* read_file_names without the two count checks: the variant that C2 tells
\* from the code.
RECURSIVE read_loop_lenient(_, _, _)
read_loop_lenient(lines_it, files_it, actions) ==
    IF lines_it /= <<>> /\ files_it /= <<>>
    THEN read_loop_lenient(Tail(lines_it), Tail(files_it),
                           actions \o create_action(Head(lines_it), Head(files_it)))
    ELSE Ok(actions)

read_file_names_lenient(reader, files) ==
    read_loop_lenient(non_blank(reader), files, <<>>)

\* read_file_names pushing each action in front of the earlier ones: the
\* variant that C11 tells from the code.
RECURSIVE read_loop_reversed(_, _, _)
read_loop_reversed(lines_it, files_it, actions) ==
    IF lines_it /= <<>>
    THEN IF files_it /= <<>>
         THEN read_loop_reversed(Tail(lines_it), Tail(files_it),
                  create_action(Head(lines_it), Head(files_it)) \o actions)
         ELSE ParseError(TooMany)
    ELSE IF files_it /= <<>>
         THEN ParseError(TooFew)
         ELSE Ok(actions)

read_file_names_reversed(reader, files) ==
    read_loop_reversed(non_blank(reader), files, <<>>)

\* read_file_names: the non-blank lines and the files, pair by pair.
read_file_names(reader, files) == read_loop(non_blank(reader), files, <<>>)

\* Seek::seek(SeekFrom::Start(offset)) on a handle at position pos: the new
\* position.
seek_from_start(pos, offset) == offset

\* FilesFile::read without its seek, reading from where the handle is: the
\* variant that C14 tells from the code.
FilesFile_read_unsought(content, pos, files) ==
    read_file_names(lines(SubSeq(content, pos + 1, Len(content))), files)

\* FilesFile::read on a file of this content whose handle is at pos: seek to
\* the start, then reconcile every line from there to the end of the file.
FilesFile_read(content, pos, files) ==
    read_file_names(lines(SubSeq(content, seek_from_start(pos, 0) + 1,
                                 Len(content))), files)

\* ---------------------------------------------------------- action.rs

\* The outcome of a filesystem call: the filesystem after it, and Ok or Err.
IoOk(dir) == [fs |-> dir, ok |-> TRUE]
IoErr(dir) == [fs |-> dir, ok |-> FALSE]

\* std::fs::metadata(path).is_err(): nothing is there, or a link to nothing.
metadata_is_err(dir, path) == dir[path] \in {"none", "link"}

\* std::fs::remove_file: unlinks a file or a link, fails on the rest.
remove_file(dir, path) ==
    IF dir[path] \in {"file", "link"}
    THEN IoOk([dir EXCEPT ![path] = "none"])
    ELSE IoErr(dir)

\* std::fs::remove_dir_all: removes a directory (or a link), fails on the rest.
remove_dir_all(dir, path) ==
    IF dir[path] \in {"dir", "link"}
    THEN IoOk([dir EXCEPT ![path] = "none"])
    ELSE IoErr(dir)

\* std::fs::rename (rename(2)): replaces a file or link by a file or link and
\* an empty directory by a directory; fails when the source is missing or the
\* kinds do not fit; renaming a path to itself changes nothing.
rename(dir, from, to) ==
    IF dir[from] = "none" THEN IoErr(dir)
    ELSE IF from = to THEN IoOk(dir)
    ELSE IF dir[from] = "dir" /\ dir[to] \in {"file", "link"} THEN IoErr(dir)
    ELSE IF dir[from] /= "dir" /\ dir[to] = "dir" THEN IoErr(dir)
    ELSE IoOk([dir EXCEPT ![to] = dir[from], ![from] = "none"])

should_rename(dir, from, to) ==
    eq_ignore_ascii_case(from, to) \/ metadata_is_err(dir, to)

\* Action::apply on the filesystem dir.
Action_apply(dir, action) ==
    IF action.act.tag = "Delete"
    THEN IF action.item.item_type = "File"
         THEN remove_file(dir, action.item.name)
         ELSE remove_dir_all(dir, action.item.name)
    ELSE IF should_rename(dir, action.item.name, action.act.path)
         THEN rename(dir, action.item.name, action.act.path)
         ELSE IoOk(dir)

\* ------------------------------------------------------------ main.rs

\* The order of natural_sort::natural_cmp on the model's names (no digits):
\* character by character, by code point.
char_rank(c) ==
    CASE c = "\n" -> 10
      [] c = " " -> 32
      [] c = "#" -> 35
      [] c = "A" -> 65
      [] c = "Y" -> 89
      [] c = "a" -> 97
      [] c = "b" -> 98
      [] c = "e" -> 101
      [] c = "n" -> 110
      [] c = "y" -> 121

RECURSIVE natural_less(_, _)
natural_less(x, y) ==
    IF y = <<>> THEN FALSE
    ELSE IF x = <<>> THEN TRUE
    ELSE IF Head(x) /= Head(y) THEN char_rank(Head(x)) < char_rank(Head(y))
    ELSE natural_less(Tail(x), Tail(y))

\* get_items_in_dir: the entries of the directory that the pattern matches
\* (matched: the names the regular expression accepts), directories only
\* with --include-dirs, sorted by name.
get_items_in_dir(dir, matched, include_dirs) ==
    LET names == {p \in matched :
                    /\ dir[p] /= "none"
                    /\ (include_dirs \/ dir[p] /= "dir")}
        n == Cardinality(names)
        order == CHOOSE s \in [1..n -> names] :
                    \A j, k \in 1..n : j < k => natural_less(s[j], s[k])
    IN  [k \in 1..n |->
            FsItem(IF dir[order[k]] = "dir" THEN "Directory" ELSE "File",
                   order[k])]

\* read_user_input: the line read, trimmed and lowercased.
read_user_input(raw) == to_lowercase(trim(raw))

\* read_confirmation_user_input: the answer, or "Again" to ask once more.
read_confirmation_user_input(raw) ==
    LET input == read_user_input(raw)
    IN  CASE input = <<"n">> -> "No"
          [] input = <<"y">> -> "Yes"
          [] input = <<"e">> -> "Edit"
          [] OTHER -> "Again"

\* read_error_confirmation_user_input
read_error_confirmation_user_input(raw) ==
    LET input == read_user_input(raw)
    IN  CASE input = <<"n">> -> "No"
          [] input = <<"y">> -> "Yes"
          [] OTHER -> "Again"

\* ------------------------------------------------------------- state

VARIABLES
    fs,         \* the directory: path -> "none" | "file" | "dir" | "link"
    fs0,        \* the directory as it was when the listing was taken
    files,      \* main's files: the listing, a sequence of FsItem
    content,    \* the content of the temporary file
    pc,         \* where the session is
    actions,    \* the actions of the last successful FilesFile::read
    parse_err,  \* the message of the last ReadFileError::Parse
    result,     \* what run_edit_process returned: "Pending", "None", "Some"
    answer,     \* what the last prompt made of the line it read; "" when
                \* none was read since the editor started
    i,          \* main's loop over the returned actions: the next one
    log,        \* one entry per Action::apply call made: its action and result
    outfile,    \* the temporary file: "open" or "removed"
    spawn_err   \* the editor's last spawn returned Err

vars ==
    <<fs, fs0, files, content, pc, actions, parse_err, result, answer, i, log,
      outfile, spawn_err>>

Kinds == {"none", "file", "dir", "link"}

\* main, up to the call of run_edit_process: the listing is taken and written
\* to the temporary file.
Init ==
    /\ fs0 \in [AllPaths -> Kinds]
    /\ \A p \in AllPaths \ Paths : fs0[p] = "none"
    /\ Cardinality({p \in Paths : fs0[p] /= "none"}) <= MaxFiles
    /\ fs = fs0
    /\ \E matched \in Patterns, include_dirs \in BOOLEAN :
          files = get_items_in_dir(fs0, matched, include_dirs)
    /\ content = write_file_names(files)
    /\ pc = "Editing"
    /\ actions = <<>>
    /\ parse_err = ""
    /\ result = "Pending"
    /\ answer = ""
    /\ i = 1
    /\ log = <<>>
    /\ outfile = "open"
    /\ spawn_err = FALSE

\* run_editor going on to the wait and the read when the spawn returns Err:
\* the variant that C15 tells from the code.
run_editor_err_ignored == "EditorOpen"

\* run_editor when the spawn returns Err: the panic.
run_editor_err == "Panicked"

\* run_editor: the editor cannot be started, and the process panics. When the
\* panic unwinds, main's file is dropped, which removes the temporary file;
\* when the build aborts on a panic, the temporary file stays.
EditorLaunchFailure ==
    /\ pc = "Editing"
    /\ pc' = run_editor_err
    /\ spawn_err' = TRUE
    /\ answer' = ""
    /\ IF pc' = "Panicked"
       THEN \/ outfile' = "removed" /\ content' = <<>>
            \/ UNCHANGED <<outfile, content>>
       ELSE UNCHANGED <<outfile, content>>
    /\ UNCHANGED <<fs, fs0, files, actions, parse_err, result, i, log>>

\* run_editor: the editor starts on the temporary file; the process waits.
EditorSpawn ==
    /\ pc = "Editing"
    /\ pc' = "EditorOpen"
    /\ spawn_err' = FALSE
    /\ answer' = ""
    /\ UNCHANGED <<fs, fs0, files, content, actions, parse_err, result, i, log,
                   outfile>>

\* The text as the editor shows it: cut at every "\n".
RECURSIVE raw_from(_, _)
raw_from(text, cur) ==
    IF text = <<>>
    THEN <<cur>>
    ELSE IF Head(text) = "\n"
         THEN <<cur>> \o raw_from(Tail(text), <<>>)
         ELSE raw_from(Tail(text), Append(cur, Head(text)))

raw_lines(text) == IF text = <<>> THEN <<>> ELSE raw_from(text, <<>>)

RECURSIVE join_lines(_)
join_lines(ls) ==
    IF ls = <<>> THEN <<>>
    ELSE IF Len(ls) = 1 THEN Head(ls)
    ELSE Head(ls) \o <<"\n">> \o join_lines(Tail(ls))

\* The user, in the editor, adds a line or removes one.
EditorWrite ==
    /\ pc = "EditorOpen"
    /\ LET ls == raw_lines(content)
       IN  \/ /\ Len(ls) < MaxLines
              /\ \E k \in 1..(Len(ls) + 1), l \in EditorLines :
                    content' = join_lines(SubSeq(ls, 1, k - 1) \o <<l>>
                                          \o SubSeq(ls, k, Len(ls)))
           \/ \E k \in 1..Len(ls) :
                    content' = join_lines(SubSeq(ls, 1, k - 1)
                                          \o SubSeq(ls, k + 1, Len(ls)))
    /\ UNCHANGED <<fs, fs0, files, pc, actions, parse_err, result, answer, i, log,
                   outfile, spawn_err>>

\* run_edit_process asking for the review of an empty list too: the variant
\* that C13 tells from the code.
read_next_always_reviews(r) ==
    IF r.ok
    THEN [pc |-> "Reviewing", result |-> "Pending"]
    ELSE [pc |-> "ParseFailed", result |-> "Pending"]

\* run_edit_process after FilesFile::read returns r: "Nothing to do" and the
\* return of the empty list, the review prompt, or the retry prompt.
read_next(r) ==
    IF r.ok
    THEN IF r.actions = <<>>
         THEN [pc |-> "Accepted", result |-> "Some"]
         ELSE [pc |-> "Reviewing", result |-> "Pending"]
    ELSE [pc |-> "ParseFailed", result |-> "Pending"]

\* run_edit_process, from the editor's exit to the next prompt or return:
\* the file is read and reconciled with the listing. The handle is where
\* write_new or the last read left it, at the end of what the file then held;
\* the editor has rewritten the file since, so the read finds the handle at
\* any position of the file.
EditorExit ==
    /\ pc = "EditorOpen"
    /\ \E pos \in 0..Len(content) :
          LET r == FilesFile_read(content, pos, files)
              next == read_next(r)
          IN  /\ actions' = r.actions
              /\ parse_err' = r.err
              /\ pc' = next.pc
              /\ result' = next.result
    /\ UNCHANGED <<fs, fs0, files, content, answer, i, log, outfile, spawn_err>>

\* The review prompt taking "n" for "y": the variant that C8 tells from the
\* code.
review_next_no_is_yes(input) ==
    CASE input = "Yes" -> [pc |-> "Accepted", result |-> "Some", keep |-> TRUE]
      [] input = "No" -> [pc |-> "Accepted", result |-> "Some", keep |-> TRUE]
      [] input = "Edit" -> [pc |-> "Editing", result |-> "Pending", keep |-> FALSE]
      [] OTHER -> [pc |-> "Reviewing", result |-> "Pending", keep |-> TRUE]

\* The review prompt taking any other answer for "e": the variant that C18
\* tells from the code.
review_next_other_edits(input) ==
    CASE input = "Yes" -> [pc |-> "Accepted", result |-> "Some", keep |-> TRUE]
      [] input = "No" -> [pc |-> "Aborted", result |-> "None", keep |-> FALSE]
      [] OTHER -> [pc |-> "Editing", result |-> "Pending", keep |-> FALSE]

\* run_edit_process after read_confirmation_user_input returns input.
review_next(input) ==
    CASE input = "Yes" -> [pc |-> "Accepted", result |-> "Some", keep |-> TRUE]
      [] input = "No" -> [pc |-> "Aborted", result |-> "None", keep |-> FALSE]
      [] input = "Edit" -> [pc |-> "Editing", result |-> "Pending", keep |-> FALSE]
      [] OTHER -> [pc |-> "Reviewing", result |-> "Pending", keep |-> TRUE]

\* The review prompt: "Do you want to continue? (y/n/e)".
Review ==
    /\ pc = "Reviewing"
    /\ \E raw \in Answers :
          LET input == read_confirmation_user_input(raw)
              next == review_next(input)
          IN  /\ pc' = next.pc
              /\ result' = next.result
              /\ actions' = IF next.keep THEN actions ELSE <<>>
              /\ answer' = input
    /\ UNCHANGED <<fs, fs0, files, content, parse_err, i, log,
                   outfile, spawn_err>>

\* The retry prompt whose "y" accepts instead of editing again: the variant
\* that C10 tells from the code.
retry_next_accepts(input) ==
    CASE input = "Yes" -> [pc |-> "Accepted", result |-> "Some"]
      [] input = "No" -> [pc |-> "Aborted", result |-> "None"]
      [] OTHER -> [pc |-> "ParseFailed", result |-> "Pending"]

\* run_edit_process after read_error_confirmation_user_input returns input.
retry_next(input) ==
    CASE input = "Yes" -> [pc |-> "Editing", result |-> "Pending"]
      [] input = "No" -> [pc |-> "Aborted", result |-> "None"]
      [] OTHER -> [pc |-> "ParseFailed", result |-> "Pending"]

\* The retry prompt: "Do you want to retry editing? (y/n)".
Retry ==
    /\ pc = "ParseFailed"
    /\ \E raw \in Answers :
          LET input == read_error_confirmation_user_input(raw)
              next == retry_next(input)
          IN  /\ pc' = next.pc
              /\ result' = next.result
              /\ parse_err' = IF next.pc = "Editing" THEN "" ELSE parse_err
              /\ answer' = input
    /\ UNCHANGED <<fs, fs0, files, content, actions, i, log,
                   outfile, spawn_err>>

\* main's loop leaving at the first Err: the variant that C9 tells from the
\* code.
main_loop_next_stops(k, ok, n) == IF ok THEN k + 1 ELSE n + 1

\* main's loop over the n returned actions: where it goes after action k,
\* whose apply returned ok; an Err is printed and the loop goes on.
main_loop_next(k, ok, n) == k + 1

Apply ==
    /\ pc = "Accepted"
    /\ i <= Len(actions)
    /\ LET r == Action_apply(fs, actions[i])
       IN  /\ fs' = r.fs
           /\ log' = Append(log, [action |-> actions[i], ok |-> r.ok])
           /\ i' = main_loop_next(i, r.ok, Len(actions))
    /\ UNCHANGED <<fs0, files, content, pc, actions, parse_err, result, answer,
                   outfile, spawn_err>>

\* main returning without the drop of its file after "Aborted": the variant
\* that C16 tells from the code.
main_end_keeps_on_abort(res) == IF res = "None" THEN "open" ELSE "removed"

\* main's end after run_edit_process returned res: file goes out of scope
\* and its NamedTempFile is dropped, which removes the temporary file.
main_end(res) == "removed"

\* main returns: "Applied actions" after the loop, "Aborted" on None.
Finish ==
    /\ \/ pc = "Accepted" /\ i > Len(actions)
       \/ pc = "Aborted"
    /\ pc' = "Exit"
    /\ outfile' = main_end(result)
    /\ IF outfile' = "removed"
       THEN content' = <<>>
       ELSE UNCHANGED content
    /\ UNCHANGED <<fs, fs0, files, actions, parse_err, result, answer, i, log,
                   spawn_err>>

Next ==
    \/ EditorLaunchFailure
    \/ EditorSpawn
    \/ EditorWrite
    \/ EditorExit
    \/ Review
    \/ Retry
    \/ Apply
    \/ Finish

Spec == Init /\ [][Next]_vars

\* ------------------------------------------------------------ claims

\* The iterator lines_it of read_file_names on the file's content: the lines
\* that are not blank, as read (not trimmed).
NonBlankLines(text) == non_blank(lines(text))

\* The file has been read and reconciled with the listing without an error
\* (content, files and actions do not change while this holds).
Reconciled == pc = "Reviewing" \/ pc = "Accepted"

\* Some action of the sequence acts is act on item.
HasAction(acts, act, item) ==
    \E j \in 1..Len(acts) : acts[j] = Action(act, item)

\* Some action of the sequence acts is on item.
HasActionOn(acts, item) == \E j \in 1..Len(acts) : acts[j].item = item

\* C1: reading the listing back as it was written (the editor changed
\* nothing) succeeds with no action: the file holds one non-blank line per
\* entry, each the entry's path, and the session goes on with an empty list.
C1_RoundTripNoActions ==
    (pc \in {"Reviewing", "ParseFailed", "Accepted"}
        /\ content = write_file_names(files))
    => /\ pc = "Accepted"
       /\ actions = <<>>
       /\ Len(NonBlankLines(content)) = Len(files)
       /\ \A k \in 1..Len(files) :
             trim(NonBlankLines(content)[k]) = files[k].name

\* C2: when the file holds more non-blank lines than the listing has entries
\* the read fails with "too many", when it holds fewer it fails with "not
\* enough", and either way no action is kept or returned.
C2_LineCountMismatch ==
    pc \in {"Reviewing", "ParseFailed", "Accepted"}
    => LET n == Len(NonBlankLines(content))
           m == Len(files)
       IN  /\ n > m => (pc = "ParseFailed" /\ parse_err = TooMany)
           /\ n < m => (pc = "ParseFailed" /\ parse_err = TooFew)
           /\ n /= m => (actions = <<>> /\ result = "Pending")

\* C2's case: too many lines, after the first pair had given an action.
C2_Witness ==
    /\ pc = "ParseFailed"
    /\ parse_err = TooMany
    /\ Len(files) >= 1
    /\ create_action(NonBlankLines(content)[1], files[1]) /= <<>>

\* C3: after a successful read, an entry whose (trimmed) line is its own
\* path, unchanged, has no action.
C3_UnchangedLineNoAction ==
    Reconciled
    => \A k \in 1..Len(files) :
          trim(NonBlankLines(content)[k]) = files[k].name
          => ~HasActionOn(actions, files[k])

\* C4: after a successful read, an entry whose line begins with "#" (leading
\* whitespace aside) has a Delete action, whatever follows the "#".
C4_MarkerAlwaysDeletes ==
    Reconciled
    => \A k \in 1..Len(files) :
          starts_with_marker(trim(NonBlankLines(content)[k]))
          => HasAction(actions, Delete, files[k])

\* C4's case: the line of entry "a" is "#a", and "a" is to be deleted.
C4_Witness ==
    /\ pc = "Reviewing"
    /\ \E k \in 1..Len(files) :
          /\ files[k].name = a_
          /\ NonBlankLines(content)[k] = hash_a
          /\ HasAction(actions, Delete, files[k])

\* C5: after a successful read, an entry whose trimmed line is not its path
\* and does not begin with "#" has the action Rename(trimmed line).
C5_OtherLineRenames ==
    Reconciled
    => \A k \in 1..Len(files) :
          LET line == trim(NonBlankLines(content)[k])
          IN  (line /= files[k].name /\ ~starts_with_marker(line))
              => HasAction(actions, Rename(line), files[k])

\* C5's case: the line " b" renames an entry that is not "b" to "b".
C5_Witness ==
    /\ pc = "Reviewing"
    /\ \E k \in 1..Len(files) :
          /\ files[k].name /= b_
          /\ NonBlankLines(content)[k] = <<" ", "b">>
          /\ HasAction(actions, Rename(b_), files[k])

\* main is about to apply a Rename.
ApplyingRename ==
    /\ pc = "Accepted"
    /\ i <= Len(actions)
    /\ actions[i].act.tag = "Rename"

\* C6: applying a Rename whose target exists and is not the source's name in
\* another letter case is skipped: apply returns Ok and nothing changes.
C6_ExistingTargetSkipped ==
    [][(/\ ApplyingRename
        /\ fs[actions[i].act.path] /= "none"
        /\ ~eq_ignore_ascii_case(actions[i].item.name, actions[i].act.path))
       => (fs' = fs /\ log'[Len(log')].ok)]_vars

\* C7: applying a Rename that only changes letter case renames when nothing
\* is at the target, and when source and target are two files it is skipped,
\* the target file kept.
C7_CaseOnlyRename ==
    [][(/\ ApplyingRename
        /\ eq_ignore_ascii_case(actions[i].item.name, actions[i].act.path)
        /\ fs[actions[i].item.name] /= "none")
       => /\ fs[actions[i].act.path] = "none"
             => /\ fs'[actions[i].act.path] = fs[actions[i].item.name]
                /\ fs'[actions[i].item.name] = "none"
          /\ (fs[actions[i].item.name] = "file"
                /\ fs[actions[i].act.path] = "file")
             => (fs' = fs /\ log'[Len(log')].ok)]_vars

\* C8: after the answer "n" at either prompt the session is aborted:
\* run_edit_process returns None, no action is ever applied and the
\* filesystem is as it was.
C8_AbortChangesNothing ==
    (answer = "No" \/ pc = "Aborted" \/ result = "None")
    => /\ pc \in {"Aborted", "Exit"}
       /\ result = "None"
       /\ log = <<>>
       /\ fs = fs0

\* C8's case: the session was aborted at the review prompt, where actions
\* were pending, after the user had changed the file.
C8_Witness ==
    /\ pc = "Aborted"
    /\ answer = "No"
    /\ content /= write_file_names(files)
    /\ read_file_names(lines(content), files).ok
    /\ read_file_names(lines(content), files).actions /= <<>>

\* The filesystem after the first n of acts were applied to dir in order.
RECURSIVE AppliedInOrder(_, _, _)
AppliedInOrder(dir, acts, n) ==
    IF n = 0 THEN dir
    ELSE Action_apply(AppliedInOrder(dir, acts, n - 1), acts[n]).fs

\* C9: once accepted, the actions are applied one by one in list order, each
\* once, a failed one included and followed by the next; the filesystem holds
\* the effect of every action so far; and the process ends with all applied.
C9_EveryActionAppliedInOrder ==
    (pc \in {"Accepted", "Exit"} /\ result = "Some")
    => /\ Len(log) = i - 1
       /\ i <= Len(actions) + 1
       /\ \A k \in 1..Len(log) : log[k].action = actions[k]
       /\ fs = AppliedInOrder(fs0, actions, Len(log))
       /\ pc = "Exit" => Len(log) = Len(actions)

\* C9's case: the first action failed and the second was applied all the same.
C9_Witness ==
    /\ pc = "Exit"
    /\ Len(log) = 2
    /\ ~log[1].ok
    /\ log[2].ok
    /\ fs /= fs0

\* C10: after a parse error the session holds no action and has returned
\* nothing, and its next step is the retry prompt again, back to the editor
\* (answer "y") or the abort (answer "n"); nothing is applied.
C10_ParseFailedRetryOrAbort ==
    /\ [](pc = "ParseFailed"
            => (actions = <<>> /\ result = "Pending" /\ log = <<>>))
    /\ [][pc = "ParseFailed"
            => /\ pc' \in {"ParseFailed", "Editing", "Aborted"}
               /\ pc' = "Editing" <=> answer' = "Yes"
               /\ pc' = "Aborted" <=> answer' = "No"
               /\ pc' = "Aborted" => result' = "None"
               /\ actions' = <<>>
               /\ fs' = fs
               /\ log' = log]_vars

\* C10's case: the session was aborted at the retry prompt after "too many".
C10_Witness ==
    /\ pc = "Aborted"
    /\ parse_err = TooMany
    /\ answer = "No"

\* The positions of the entries whose line asks for something: a marker, or
\* a trimmed line that is not the entry's path.
Acted(ls, fls) ==
    {k \in 1..Len(fls) :
        starts_with_marker(trim(ls[k])) \/ trim(ls[k]) /= fls[k].name}

\* What the line asks for the entry: Delete on a marker, else Rename.
Asked(line, item) ==
    IF starts_with_marker(trim(line))
    THEN Action(Delete, item)
    ELSE Action(Rename(trim(line)), item)

\* C11: after a successful read the k-th non-blank line belongs to the k-th
\* entry, and the actions are those of the entries whose line asks for one,
\* in entry order, each on its own entry: so no entry has two actions and
\* there are no more actions than entries.
C11_ActionsInEntryOrder ==
    Reconciled
    => LET ls == NonBlankLines(content)
           acted == Acted(ls, files)
       IN  /\ Len(ls) = Len(files)
           /\ Len(actions) = Cardinality(acted)
           /\ Len(actions) <= Len(files)
           /\ \A k \in acted :
                 actions[Cardinality({m \in acted : m <= k})]
                    = Asked(ls[k], files[k])
           /\ \A j, k \in 1..Len(actions) :
                 actions[j].item = actions[k].item => j = k

\* C11's case: two entries, the first deleted and the second renamed to "b".
C11_Witness ==
    /\ pc = "Reviewing"
    /\ Len(files) = 2
    /\ actions = <<Action(Delete, files[1]), Action(Rename(b_), files[2])>>

\* The text without its blank lines: those that are empty or hold only
\* whitespace.
WithoutBlankLines(text) ==
    join_lines(SelectSeq(raw_lines(text),
                         LAMBDA l : \E n \in 1..Len(l) : ~is_whitespace(l[n])))

\* C12: blank lines count for nothing. What the read made of the file
\* (success with its actions, or the error) is what reading the same text
\* without its blank lines gives, wherever the blank lines stand.
C12_BlankLinesIgnored ==
    pc \in {"Reviewing", "ParseFailed", "Accepted"}
    => LET r == read_file_names(lines(WithoutBlankLines(content)), files)
       IN  /\ r.ok = (pc /= "ParseFailed")
           /\ r.actions = actions
           /\ r.err = parse_err

\* C12's case: a read that gave actions from a file with a whitespace-only
\* line before the entries' lines and an empty line between them.
C12_Witness ==
    /\ pc = "Reviewing"
    /\ Len(files) >= 1
    /\ Len(raw_lines(content)) = 3
    /\ raw_lines(content)[1] = <<" ">>
    /\ raw_lines(content)[2] = <<>>

\* C13: a read that succeeds with no action returns the empty list at once,
\* no prompt asked; a list that is not empty is reviewed, and returned only
\* on the answer "y"; the list returned is the one read from the file as the
\* editor last left it.
C13_EmptyListShortCircuits ==
    LET r == read_file_names(lines(content), files)
    IN  /\ (pc \in {"Reviewing", "ParseFailed", "Accepted"}
               /\ r.ok /\ r.actions = <<>>)
           => (pc = "Accepted" /\ result = "Some" /\ actions = <<>>
                  /\ answer = "")
        /\ pc = "Reviewing" => actions /= <<>>
        /\ (pc = "Accepted" /\ actions /= <<>>) => answer = "Yes"
        /\ pc = "Accepted"
           => (result = "Some" /\ r.ok /\ actions = r.actions)

\* C13's case: the user edited the file, the read gave no action, and the
\* empty list was returned without a prompt.
C13_Witness ==
    /\ pc = "Accepted"
    /\ actions = <<>>
    /\ answer = ""
    /\ files /= <<>>
    /\ content /= write_file_names(files)

\* C14: the answer "e" at the review prompt, or "y" at the retry prompt,
\* leads back to the editor on the file as the user left it: neither the
\* file nor the listing changes on the way, and the read after the editor
\* gives what the whole file, from its first line, reconciles to.
C14_ReEditKeepsBuffer ==
    [][/\ (pc \in {"Reviewing", "ParseFailed"} /\ pc' = "Editing")
          => (content' = content /\ files' = files)
       /\ (pc = "Editing" /\ pc' = "EditorOpen")
          => (content' = content /\ files' = files)
       /\ (pc = "EditorOpen" /\ pc' /= "EditorOpen")
          => LET r == read_file_names(lines(content), files)
             IN  /\ actions' = r.actions
                 /\ parse_err' = r.err
                 /\ (pc' = "ParseFailed") = ~r.ok
                 /\ content' = content
                 /\ files' = files]_vars

\* C14's case: back in Editing after "e", the file still as edited.
C14_Witness ==
    /\ pc = "Editing"
    /\ answer = "Edit"
    /\ content /= write_file_names(files)
    /\ read_file_names(lines(content), files).actions /= <<>>

\* C15: when the editor cannot be started the process ends there: the state
\* is the one Editing had (no list read, no answer, nothing returned),
\* nothing was applied, the directory is as listed, and no step follows.
C15_LaunchFailureIsFatal ==
    spawn_err
    => /\ pc = "Panicked"
       /\ actions = <<>>
       /\ answer = ""
       /\ result = "Pending"
       /\ log = <<>>
       /\ fs = fs0
       /\ ~ENABLED Next

\* C15's case: the editor did not start, with two entries listed.
C15_Witness ==
    /\ pc = "Panicked"
    /\ spawn_err
    /\ Len(files) = 2

\* C16: the temporary file is there from the start to the end of the session
\* and is removed when main returns, whether the actions were applied, there
\* were none, or the user aborted; once removed it does not come back.
C16_TempFileRemovedAtEnd ==
    /\ [](pc \in {"Editing", "EditorOpen", "Reviewing", "ParseFailed",
                  "Accepted", "Aborted"} => outfile = "open")
    /\ [](pc = "Exit" => outfile = "removed")
    /\ [][outfile = "removed" => outfile' = "removed"]_vars

\* C16's case: main returned after the user aborted at a prompt, and the
\* file is gone.
C16_Witness ==
    /\ pc = "Exit"
    /\ result = "None"
    /\ outfile = "removed"

\* C17: applying a Rename whose target exists, and is not the source's name
\* in another letter case, replaces nothing: the target stays what it was and
\* the source stays where it was, whatever earlier actions of the list did.
C17_NoExistingPathReplaced ==
    [][(/\ ApplyingRename
        /\ fs[actions[i].act.path] /= "none"
        /\ ~eq_ignore_ascii_case(actions[i].item.name, actions[i].act.path))
       => /\ fs'[actions[i].act.path] = fs[actions[i].act.path]
          /\ fs'[actions[i].item.name] = fs[actions[i].item.name]]_vars

\* C18: an answer that is none of y, n, e at the review prompt, or none of
\* y, n at the retry prompt, is asked again and changes nothing else: not
\* the place in the session, the file, the list read from it, the error, the
\* directory or what was applied.
C18_UnrecognizedAnswerReasks ==
    /\ \A raw \in Answers :
          /\ (read_confirmation_user_input(raw) = "Again")
             = (read_user_input(raw) \notin {<<"y">>, <<"n">>, <<"e">>})
          /\ (read_error_confirmation_user_input(raw) = "Again")
             = (read_user_input(raw) \notin {<<"y">>, <<"n">>})
    /\ [][(pc \in {"Reviewing", "ParseFailed"})
          => /\ (answer' = "Again")
                => UNCHANGED <<pc, content, files, actions, parse_err, result,
                               fs, i, log, outfile, spawn_err>>
             /\ (answer' = "Again") = (pc' = pc)]_vars

\* C18's case: the review prompt is asked again, the actions still pending.
C18_Witness ==
    /\ pc = "Reviewing"
    /\ answer = "Again"
    /\ actions /= <<>>

====
